---- MODULE Spec2Model ----
(***************************************************************************)
(* A model of the ADI graph engine of adigo (package adigo,               *)
(* internal/adi.go and the Box node).  A graph is a table of nodes, each  *)
(* holding a list of 8-bit adjacency words, a label index from labels to  *)
(* table positions, and a growth factor.                                  *)
(*                                                                         *)
(* A node of the table is identified by its position: Go index i is       *)
(* nodes[i + 1] here.  A Go panic is the call result "panic"; after it    *)
(* the program has stopped and no further call is made.                   *)
(***************************************************************************)
EXTENDS Integers, Sequences, FiniteSets, TLC

VARIABLES
    nodes,          \* g.nodes: the node table, a sequence of Box records
    labels,         \* g.labels: label -> table index, or -1 once deleted
    growthFactor,   \* g.growthFactor
    last,           \* the last API call made on the graph and its result
    ops,            \* number of Connect and Delete calls made so far
    calls,          \* results of the GetLocatorsByIndex calls made so far
    nbr,            \* the frame of the Neighbors call in flight, if any
    bfs             \* the frame of the BFS call in flight, if any

vars == <<nodes, labels, growthFactor, last, ops, calls, nbr, bfs>>

----------------------------------------------------------------------------
(* Bounds of the model. *)

\* Spec: at most MaxNodes nodes are added, from the labels of Labels.
MaxNodes == 3
\* Spec: Connect is called with at most MaxTargets neighbor labels.
MaxTargets == 2
\* Spec: at most MaxOps Connect and Delete calls are made.
MaxOps == 2
\* SpecGrow: at most MaxGrowNodes nodes are added.
MaxGrowNodes == 18
\* SpecGrow: at most MaxGrowOps Connect and Delete calls are made.
MaxGrowOps == 1
\* SpecLocator: GetLocatorsByIndex is called on indices -1 .. MaxIndex,
\* at most MaxCalls times.
MaxIndex == 20
MaxCalls == 2
\* SpecNeighbors: at most MaxNbrNodes nodes are added and at most MaxNbrOps
\* Connect and Delete calls are made.
MaxNbrNodes == 2
MaxNbrOps == 1
\* BFS: the loop is followed while the queue holds at most MaxQueue nodes.
MaxQueue == 6
\* SpecBFS: at most MaxBfsNodes nodes are added and at most MaxBfsOps
\* Connect and Delete calls are made.
MaxBfsNodes == 2
MaxBfsOps == 2
\* SpecBox: the Box methods are called with at most MaxLocators Locators.
MaxLocators == 2

Labels == {"a", "b"}
\* A label that is never given to a node.
Unknown == "zz"
AllLabels == Labels \cup {Unknown}

----------------------------------------------------------------------------
(* Bytes: the adjacency words are Go bytes, 0 .. 255. *)

RECURSIVE BitAnd(_, _)
BitAnd(x, y) ==
    IF x = 0 \/ y = 0 THEN 0
    ELSE (x % 2) * (y % 2) + 2 * BitAnd(x \div 2, y \div 2)

RECURSIVE BitOr(_, _)
BitOr(x, y) ==
    IF x = 0 THEN y
    ELSE IF y = 0 THEN x
    ELSE (IF x % 2 = 1 \/ y % 2 = 1 THEN 1 ELSE 0)
             + 2 * BitOr(x \div 2, y \div 2)

\* ^b on a byte.
BitNot(x) == 255 - x

\* 1 << byte(offset), as a byte.
Shl1(offset) == (2 ^ offset) % 256

----------------------------------------------------------------------------
(* Box, the general-purpose node. *)

NewBox(label) == [label |-> label, adis |-> <<0, 0>>, deleted |-> FALSE]

Edges(s) == s.adis

AddColumn(s) == [s EXCEPT !.adis = Append(@, 0)]

\* s.adis[v.column] is an index expression: out of range it panics.
InRange(s, v) == v.column >= 0 /\ v.column < Len(s.adis)

\* Faulty variant of AddEdges: the word is overwritten with the mask.
RECURSIVE AddEdgesAssign(_, _)
AddEdgesAssign(s, locators) ==
    IF locators = <<>> THEN [box |-> s, panic |-> FALSE]
    ELSE LET v == Head(locators) IN
         IF ~InRange(s, v) THEN [box |-> s, panic |-> TRUE]
         ELSE AddEdgesAssign([s EXCEPT !.adis[v.column + 1] = v.offset],
                             Tail(locators))

\* The result of a Box method that may panic: the box as the method left it.
RECURSIVE AddEdges(_, _)
AddEdges(s, locators) ==
    IF locators = <<>> THEN [box |-> s, panic |-> FALSE]
    ELSE LET v == Head(locators) IN
         IF ~InRange(s, v) THEN [box |-> s, panic |-> TRUE]
         ELSE AddEdges([s EXCEPT !.adis[v.column + 1] = BitOr(@, v.offset)],
                       Tail(locators))

RECURSIVE RemoveEdges(_, _)
RemoveEdges(s, locators) ==
    IF locators = <<>> THEN [box |-> s, panic |-> FALSE]
    ELSE LET v == Head(locators) IN
         IF ~InRange(s, v) THEN [box |-> s, panic |-> TRUE]
         ELSE RemoveEdges(
                  [s EXCEPT !.adis[v.column + 1] = BitAnd(@, BitNot(v.offset))],
                  Tail(locators))

\* Faulty variant of HasEdges: the strict flag is ignored, one set bit is enough.
RECURSIVE HasEdgesAny(_, _, _)
HasEdgesAny(s, strict, locators) ==
    IF locators = <<>> THEN [val |-> FALSE, panic |-> FALSE]
    ELSE LET v == Head(locators) IN
         IF ~InRange(s, v) THEN [val |-> FALSE, panic |-> TRUE]
         ELSE IF BitAnd(s.adis[v.column + 1], v.offset) > 0
              THEN [val |-> TRUE, panic |-> FALSE]
              ELSE HasEdgesAny(s, strict, Tail(locators))

\* The value HasEdges returns, or a panic on a column the box does not have.
\* Strict: the first locator whose bits are not all set ends the loop with
\* false; otherwise the first locator with a set bit ends it with true.
RECURSIVE HasEdges(_, _, _)
HasEdges(s, strict, locators) ==
    IF locators = <<>> THEN [val |-> strict, panic |-> FALSE]
    ELSE LET v == Head(locators) IN
         IF ~InRange(s, v) THEN [val |-> FALSE, panic |-> TRUE]
         ELSE IF strict
              THEN IF BitAnd(s.adis[v.column + 1], v.offset) # v.offset
                   THEN [val |-> FALSE, panic |-> FALSE]
                   ELSE HasEdges(s, strict, Tail(locators))
              ELSE IF BitAnd(s.adis[v.column + 1], v.offset) > 0
                   THEN [val |-> TRUE, panic |-> FALSE]
                   ELSE HasEdges(s, strict, Tail(locators))

Delete(s) == [s EXCEPT !.deleted = TRUE]

----------------------------------------------------------------------------
(* ADIGraph. *)

wordSize == 8

NoLocator == [column |-> 0, offset |-> 0]

Size == Len(nodes)

\* The node is returned as its table index; nil is -1.
GetByIndex(index) ==
    IF index = -1 THEN [node |-> -1, err |-> "errDeleted"]
    ELSE IF index < 0 \/ index >= Len(nodes)
         THEN [node |-> -1, err |-> "panic"]
         ELSE [node |-> index, err |-> "nil"]

\* Faulty variant of GetByLabel: the map is read without its ok flag, so an absent
\* label reads as index 0.
GetByLabelNoOk(label) ==
    GetByIndex(IF label \in DOMAIN labels THEN labels[label] ELSE 0)

GetByLabel(label) ==
    IF label \in DOMAIN labels THEN GetByIndex(labels[label])
    ELSE [node |-> -1, err |-> "errLabelNotFound"]

\* Faulty variant of GetLocatorsByIndex: quotient and remainder exchanged.
GetLocatorsByIndexSwapped(n) ==
    IF n = -1 THEN [loc |-> NoLocator, err |-> "errDeleted"]
    ELSE [loc |-> [column |-> n % wordSize, offset |-> Shl1(n \div wordSize)],
          err |-> "nil"]

\* Faulty variant of GetLocatorsByIndex: the Locator of the following index.
GetLocatorsByIndexNext(n) ==
    IF n = -1 THEN [loc |-> NoLocator, err |-> "errDeleted"]
    ELSE [loc |-> [column |-> (n + 1) \div wordSize,
                   offset |-> Shl1((n + 1) % wordSize)],
          err |-> "nil"]

\* Called with n >= -1 only (the values the label index holds).
GetLocatorsByIndex(n) ==
    IF n = -1 THEN [loc |-> NoLocator, err |-> "errDeleted"]
    ELSE [loc |-> [column |-> n \div wordSize, offset |-> Shl1(n % wordSize)],
          err |-> "nil"]

GetLocatorsByLabel(label) ==
    IF label \in DOMAIN labels THEN GetLocatorsByIndex(labels[label])
    ELSE [loc |-> NoLocator, err |-> "errLabelNotFound"]

\* g.labels[label] = index
SetLabelIndex(lbls, label, index) ==
    [l \in DOMAIN lbls \cup {label} |-> IF l = label THEN index ELSE lbls[l]]

\* Grow: AddColumn on every node of the table, and one more growth.
Grow(ns, gf) ==
    [nodes |-> [i \in 1..Len(ns) |-> AddColumn(ns[i])],
     growthFactor |-> gf + 1]

\* Faulty variant of GrowsAt: grow when the appended node fills the last word.
GrowsAtFill(len) == ((len + 1) % wordSize) = 0

\* The condition under which AddNode grows the graph, on the table length
\* before the node is appended.
GrowsAt(len) == len > (wordSize - 1) /\ (len % wordSize) = 0

\* The record of a call: its name, its label and index arguments (for
\* Connect, the set of the neighbor labels it was given), the index the
\* label resolved to, and the result.
Call(op, label, neighbors, index, err) ==
    [op |-> op, label |-> label,
     neighbors |-> {neighbors[k] : k \in 1..Len(neighbors)},
     index |-> index, err |-> err]

Running == last.err # "panic"

\* The frame of Neighbors when no call is in flight.
NoCall ==
    [pc |-> "idle", n |-> -1, adis |-> <<>>, i |-> 0, j |-> 0, cap |-> 0,
     ch |-> <<>>, wg |-> 0, spawned |-> 0, hits |-> {}, misses |-> 0,
     results |-> <<>>]

\* The frame of BFS when no call is in flight.  a and b are the table
\* indices of the two nodes, queue holds table indices, and neighborsCalled
\* tells whether the search has called Neighbors.
NoSearch ==
    [pc |-> "idle", a |-> -1, b |-> -1, bLoc |-> NoLocator, queue |-> <<>>,
     result |-> FALSE, neighborsCalled |-> FALSE]

\* Faulty variant of AddNode: the slot of a deleted node is used again.
AddNodeReuse(n) ==
    LET free == {i \in 0..(Len(nodes) - 1) : nodes[i + 1].deleted}
        slot == IF free = {} THEN Len(nodes)
                ELSE CHOOSE i \in free : \A k \in free : i <= k
    IN
    /\ Running
    /\ labels' = SetLabelIndex(labels, n.label, slot)
    /\ nodes' = IF free = {} THEN Append(nodes, n)
                ELSE [nodes EXCEPT ![slot + 1] = n]
    /\ UNCHANGED growthFactor
    /\ last' = Call("AddNode", n.label, <<>>, slot, "nil")

AddNode(n) ==
    /\ Running
    /\ labels' = SetLabelIndex(labels, n.label, Len(nodes))
    /\ IF GrowsAt(Len(nodes))
         THEN LET g == Grow(Append(nodes, n), growthFactor) IN
              /\ nodes' = g.nodes
              /\ growthFactor' = g.growthFactor
         ELSE /\ nodes' = Append(nodes, n)
              /\ UNCHANGED growthFactor
    /\ last' = Call("AddNode", n.label, <<>>, Len(nodes), "nil")

\* The locators of the neighbor labels that resolve, in order.
RECURSIVE Locations(_)
Locations(neighbors) ==
    IF neighbors = <<>> THEN <<>>
    ELSE LET r == GetLocatorsByLabel(Head(neighbors)) IN
         IF r.err = "nil" THEN <<r.loc>> \o Locations(Tail(neighbors))
         ELSE Locations(Tail(neighbors))

\* for _, v := range locations { item.AddEdges(v) }
RECURSIVE AddEach(_, _)
AddEach(s, locations) ==
    IF locations = <<>> THEN [box |-> s, panic |-> FALSE]
    ELSE LET r == AddEdges(s, <<Head(locations)>>) IN
         IF r.panic THEN r ELSE AddEach(r.box, Tail(locations))

\* Faulty variant of Connect: each target is given the edge back to the
\* source as well.
ConnectBothWays(label, neighbors) ==
    LET item == GetByLabel(label) IN
    /\ Running
    /\ IF item.err # "nil"
         THEN /\ UNCHANGED <<nodes, labels, growthFactor>>
              /\ last' = Call("Connect", label, neighbors, -1,
                              IF item.err = "panic" THEN "panic"
                              ELSE "errLabelNotFound")
         ELSE LET locs == Locations(neighbors)
                  r == AddEach(nodes[item.node + 1], locs)
                  back == GetLocatorsByIndex(item.node).loc
                  targets == {GetByLabel(neighbors[k]).node :
                                 k \in {j \in 1..Len(neighbors) :
                                     GetByLabel(neighbors[j]).err = "nil"}}
              IN
              /\ nodes' = [i \in 1..Len(nodes) |->
                              IF i = item.node + 1 THEN r.box
                              ELSE IF (i - 1) \in targets
                                   THEN AddEdges(nodes[i], <<back>>).box
                                   ELSE nodes[i]]
              /\ UNCHANGED <<labels, growthFactor>>
              /\ last' = Call("Connect", label, neighbors, item.node,
                              IF r.panic THEN "panic" ELSE "nil")

Connect(label, neighbors) ==
    LET item == GetByLabel(label) IN
    /\ Running
    /\ IF item.err # "nil"
         THEN /\ UNCHANGED <<nodes, labels, growthFactor>>
              /\ last' = Call("Connect", label, neighbors, -1,
                              IF item.err = "panic" THEN "panic"
                              ELSE "errLabelNotFound")
         ELSE LET r == AddEach(nodes[item.node + 1], Locations(neighbors)) IN
              /\ nodes' = [nodes EXCEPT ![item.node + 1] = r.box]
              /\ UNCHANGED <<labels, growthFactor>>
              /\ last' = Call("Connect", label, neighbors, item.node,
                              IF r.panic THEN "panic" ELSE "nil")

\* for _, n := range gn { n.RemoveEdges(locs) }, from table position k on.
RECURSIVE RemoveFromAll(_, _, _)
RemoveFromAll(ns, k, locs) ==
    IF k > Len(ns) THEN [nodes |-> ns, panic |-> FALSE]
    ELSE LET r == RemoveEdges(ns[k], <<locs>>) IN
         IF r.panic THEN [nodes |-> ns, panic |-> TRUE]
         ELSE RemoveFromAll([ns EXCEPT ![k] = r.box], k + 1, locs)

\* Faulty variant of DeleteByIndexResult: the label index is left as it was.
DeleteByIndexKeepsLabel(index) ==
    LET n == GetByIndex(index) IN
    IF n.err # "nil"
      THEN [nodes |-> nodes, labels |-> labels, panic |-> TRUE]
      ELSE LET flagged == [nodes EXCEPT ![index + 1] = Delete(@)]
               locs == GetLocatorsByIndex(index).loc
               r == RemoveFromAll(flagged, 1, locs)
           IN  [nodes |-> r.nodes, labels |-> labels, panic |-> r.panic]

\* Faulty variant of DeleteByIndexResult: the node is flagged and its label
\* unmapped, but its bit is cleared from no node.
DeleteByIndexNoScrub(index) ==
    LET n == GetByIndex(index) IN
    IF n.err # "nil"
      THEN [nodes |-> nodes, labels |-> labels, panic |-> TRUE]
      ELSE [nodes |-> [nodes EXCEPT ![index + 1] = Delete(@)],
            labels |-> SetLabelIndex(labels, nodes[index + 1].label, -1),
            panic |-> FALSE]

\* The graph after DeleteByIndex(index), and whether the call panicked.
DeleteByIndexResult(index) ==
    LET n == GetByIndex(index) IN
    IF n.err # "nil"
      THEN \* n is nil (index -1) or the index is out of range: n.Label() or
           \* g.nodes[index] panics before anything is written.
           [nodes |-> nodes, labels |-> labels, panic |-> TRUE]
      ELSE LET name == nodes[index + 1].label
               flagged == [nodes EXCEPT ![index + 1] = Delete(@)]
               locs == GetLocatorsByIndex(index).loc
               r == RemoveFromAll(flagged, 1, locs)
           IN  [nodes |-> r.nodes,
                labels |-> SetLabelIndex(labels, name, -1),
                panic |-> r.panic]

DeleteByIndex(index) ==
    LET r == DeleteByIndexResult(index) IN
    /\ Running
    /\ nodes' = r.nodes
    /\ labels' = r.labels
    /\ UNCHANGED growthFactor
    /\ last' = Call("DeleteByIndex", "", <<>>, index,
                    IF r.panic THEN "panic" ELSE "nil")

DeleteByLabel(label) ==
    /\ Running
    /\ IF label \in DOMAIN labels
         THEN LET r == DeleteByIndexResult(labels[label]) IN
              /\ nodes' = r.nodes
              /\ labels' = r.labels
              /\ last' = Call("DeleteByLabel", label, <<>>, labels[label],
                              IF r.panic THEN "panic" ELSE "nil")
         ELSE /\ UNCHANGED <<nodes, labels>>
              /\ last' = Call("DeleteByLabel", label, <<>>, -1,
                              "errLabelNotFound")
    /\ UNCHANGED growthFactor

----------------------------------------------------------------------------
(* Spec: every call of the API on a small graph, with labels that may      *)
(* repeat, be unknown or be deleted.                                       *)

TargetLists == UNION {[1..k -> AllLabels] : k \in 0..MaxTargets}

Init ==
    /\ nodes = <<>>
    /\ labels = [l \in {} |-> 0]
    /\ growthFactor = 0
    /\ last = Call("NewGraph", "", <<>>, -1, "nil")
    /\ ops = 0
    /\ calls = {}
    /\ nbr = NoCall
    /\ bfs = NoSearch

DoAddNode ==
    /\ Len(nodes) < MaxNodes
    /\ \E l \in Labels : AddNode(NewBox(l))
    /\ UNCHANGED <<ops, calls, nbr, bfs>>

DoConnect ==
    /\ ops < MaxOps
    /\ \E label \in AllLabels, neighbors \in TargetLists :
           Connect(label, neighbors)
    /\ ops' = ops + 1
    /\ UNCHANGED <<calls, nbr, bfs>>

DoDeleteByIndex ==
    /\ ops < MaxOps
    /\ \E index \in 0..(Len(nodes) - 1) : DeleteByIndex(index)
    /\ ops' = ops + 1
    /\ UNCHANGED <<calls, nbr, bfs>>

DoDeleteByLabel ==
    /\ ops < MaxOps
    /\ \E label \in AllLabels : DeleteByLabel(label)
    /\ ops' = ops + 1
    /\ UNCHANGED <<calls, nbr, bfs>>

Next ==
    \/ DoAddNode
    \/ DoConnect
    \/ DoDeleteByIndex
    \/ DoDeleteByLabel

Spec == Init /\ [][Next]_vars

----------------------------------------------------------------------------
(* SpecGrow: the workload of the demonstration driver.  Nodes are added    *)
(* under fresh labels "Node 0", "Node 1", ... until the table holds        *)
(* MaxGrowNodes nodes; between insertions a node is connected to one       *)
(* other node, or a node is deleted.                                       *)

NodeName(i) == "Node " \o ToString(i)

NodeNames == {NodeName(i) : i \in 0..(Len(nodes) - 1)}

GrowAddNode ==
    /\ Len(nodes) < MaxGrowNodes
    /\ AddNode(NewBox(NodeName(Len(nodes))))
    /\ UNCHANGED <<ops, calls, nbr, bfs>>

GrowConnect ==
    /\ ops < MaxGrowOps
    /\ \E label \in NodeNames, neighbor \in NodeNames :
           Connect(label, <<neighbor>>)
    /\ ops' = ops + 1
    /\ UNCHANGED <<calls, nbr, bfs>>

GrowDeleteByIndex ==
    /\ ops < MaxGrowOps
    /\ \E index \in 0..(Len(nodes) - 1) : DeleteByIndex(index)
    /\ ops' = ops + 1
    /\ UNCHANGED <<calls, nbr, bfs>>

NextGrow ==
    \/ GrowAddNode
    \/ GrowConnect
    \/ GrowDeleteByIndex

SpecGrow == Init /\ [][NextGrow]_vars

----------------------------------------------------------------------------
(* SpecLocator: GetLocatorsByIndex applied to the indices -1 .. MaxIndex,  *)
(* the results of the calls kept in calls.                                 *)

Locate(n) ==
    LET r == GetLocatorsByIndex(n) IN
    /\ Cardinality(calls) < MaxCalls
    /\ calls' = calls \cup {[n |-> n, loc |-> r.loc, err |-> r.err]}
    /\ last' = Call("GetLocatorsByIndex", "", <<>>, n, r.err)
    /\ UNCHANGED <<nodes, labels, growthFactor, ops, nbr, bfs>>

DoLocate == \E n \in -1..MaxIndex : Locate(n)

NextLocator == DoLocate

SpecLocator == Init /\ [][NextLocator]_vars

----------------------------------------------------------------------------
(* Neighbors: the caller fans out one lookup goroutine per (column, bit)  *)
(* of the node's adjacency words, waits for all of them, closes the       *)
(* channel and drains it.                                                  *)
(*                                                                         *)
(* A goroutine whose bit is unset only calls wg.Done(); such goroutines    *)
(* are alike, and the frame counts them (misses).  A goroutine whose bit   *)
(* is set is kept by its (column, bit) pair (hits) until it has sent its   *)
(* node and called wg.Done().                                              *)

\* Faulty variant of Hit: the offset itself is taken as the mask.
HitOffsetAsMask(adi, offset) == BitAnd(adi, offset) # 0

\* checkbit := 1 << byte(offset); adi&byte(checkbit) != 0
Hit(adi, offset) == BitAnd(adi, Shl1(offset)) # 0

\* index := (col * g.wordSize) + offset
LookupIndex(col, offset) == (col * wordSize) + offset

\* Faulty variant of ChanCap: the channel is one slot short of the table.
ChanCapShort(gn) == Len(gn) - 1

\* adichan := make(chan ADINode, len(gn))
ChanCap(gn) == Len(gn)

\* The call is made while no other call is in flight; n is a table index.
Neighbors(n) ==
    /\ Running
    /\ nbr.pc \in {"idle", "done"}
    /\ nbr' = [NoCall EXCEPT
                  !.pc = IF Len(Edges(nodes[n + 1])) = 0 THEN "wait"
                         ELSE "spawn",
                  !.n = n,
                  !.adis = Edges(nodes[n + 1]),
                  !.cap = ChanCap(nodes)]
    /\ last' = Call("Neighbors", "", <<>>, n, "nil")
    /\ UNCHANGED <<nodes, labels, growthFactor, ops, calls, bfs>>

\* One turn of the inner loop: wg.Add(1); go g.lookup(i, adis[i], j, ...)
Spawn ==
    /\ Running
    /\ nbr.pc = "spawn"
    /\ LET hit == Hit(nbr.adis[nbr.i + 1], nbr.j)
           lastJ == nbr.j + 1 = wordSize
           lastI == nbr.i + 1 = Len(nbr.adis)
       IN  nbr' = [nbr EXCEPT
                     !.wg = @ + 1,
                     !.spawned = @ + 1,
                     !.hits = IF hit THEN @ \cup {<<nbr.i, nbr.j>>} ELSE @,
                     !.misses = IF hit THEN @ ELSE @ + 1,
                     !.j = IF lastJ THEN 0 ELSE @ + 1,
                     !.i = IF lastJ THEN @ + 1 ELSE @,
                     !.pc = IF lastJ /\ lastI THEN "wait" ELSE "spawn"]
    /\ UNCHANGED <<nodes, labels, growthFactor, last, ops, calls, bfs>>

\* A lookup goroutine whose bit is unset: wg.Done().
LookupMiss ==
    /\ Running
    /\ nbr.misses > 0
    /\ nbr' = [nbr EXCEPT !.misses = @ - 1, !.wg = @ - 1]
    /\ UNCHANGED <<nodes, labels, growthFactor, last, ops, calls, bfs>>

\* A lookup goroutine whose bit is set: it resolves the index, sends the
\* node on the channel (blocking while the channel is full) and calls
\* wg.Done().
LookupHit(col, offset) ==
    LET r == GetByIndex(LookupIndex(col, offset)) IN
    /\ Running
    /\ <<col, offset>> \in nbr.hits
    /\ r.err = "nil" => Len(nbr.ch) < nbr.cap
    /\ IF r.err = "panic"
         THEN /\ last' = [last EXCEPT !.err = "panic"]
              /\ UNCHANGED nbr
         ELSE /\ nbr' = [nbr EXCEPT
                           !.ch = IF r.err = "nil" THEN Append(@, r.node)
                                  ELSE @,
                           !.hits = @ \ {<<col, offset>>},
                           !.wg = @ - 1]
              /\ UNCHANGED last
    /\ UNCHANGED <<nodes, labels, growthFactor, ops, calls, bfs>>

\* wg.Wait() returns; close(adichan); the channel is drained into results.
NeighborsReturn ==
    /\ Running
    /\ nbr.pc = "wait"
    /\ nbr.wg = 0
    /\ nbr' = [nbr EXCEPT !.pc = "done", !.results = nbr.ch]
    /\ UNCHANGED <<nodes, labels, growthFactor, last, ops, calls, bfs>>

----------------------------------------------------------------------------
(* SpecNeighbors: a small graph is built, and Neighbors is called on its   *)
(* nodes while no mutation of the graph is in flight.                      *)

Quiet == nbr.pc \in {"idle", "done"}

NbrAddNode ==
    /\ Quiet
    /\ Len(nodes) < MaxNbrNodes
    /\ \E l \in Labels : AddNode(NewBox(l))
    /\ nbr' = NoCall
    /\ UNCHANGED <<ops, calls, bfs>>

NbrConnect ==
    /\ Quiet
    /\ ops < MaxNbrOps
    /\ \E label \in Labels, neighbors \in TargetLists :
           Connect(label, neighbors)
    /\ ops' = ops + 1
    /\ nbr' = NoCall
    /\ UNCHANGED <<calls, bfs>>

NbrDeleteByIndex ==
    /\ Quiet
    /\ ops < MaxNbrOps
    /\ \E index \in 0..(Len(nodes) - 1) : DeleteByIndex(index)
    /\ ops' = ops + 1
    /\ nbr' = NoCall
    /\ UNCHANGED <<calls, bfs>>

NbrCall == \E n \in 0..(Len(nodes) - 1) : Neighbors(n)

NbrLookupHit ==
    \E col \in 0..(Len(nbr.adis) - 1), offset \in 0..(wordSize - 1) :
        LookupHit(col, offset)

NextNeighbors ==
    \/ NbrAddNode
    \/ NbrConnect
    \/ NbrDeleteByIndex
    \/ NbrCall
    \/ Spawn
    \/ LookupMiss
    \/ NbrLookupHit
    \/ NeighborsReturn

SpecNeighbors == Init /\ [][NextNeighbors]_vars

----------------------------------------------------------------------------
(* BFS.  Each call of Neighbors made by the search is taken in one step:   *)
(* its result is the nodes of the set bits of the node's adjacency words,  *)
(* in any order the lookup goroutines may deliver them.                    *)

\* The indices the lookup goroutines of Neighbors resolve for box s.
NeighborHits(s) ==
    {LookupIndex(p[1], p[2]) :
        p \in {q \in (0..(Len(s.adis) - 1)) \X (0..(wordSize - 1)) :
                  Hit(s.adis[q[1] + 1], q[2])}}

\* A lookup goroutine of Neighbors(n) panics in GetByIndex.
NeighborsPanics(n) ==
    \E k \in NeighborHits(nodes[n + 1]) : GetByIndex(k).err = "panic"

\* The sequences without repetition of all elements of S.
Orders(S) ==
    {q \in [1..Cardinality(S) -> S] :
        \A i, j \in 1..Cardinality(S) : q[i] = q[j] => i = j}

\* The slices Neighbors(n) may return.
NeighborOrders(n) ==
    Orders({k \in NeighborHits(nodes[n + 1]) : GetByIndex(k).err = "nil"})

\* Faulty variant of BFS: a is not tested, the queue is seeded at once.
BFSUntested(a, b) ==
    LET bLoc == GetLocatorsByLabel(nodes[b + 1].label).loc
        frame == [NoSearch EXCEPT !.a = a, !.b = b, !.bLoc = bLoc]
    IN
    /\ Running
    /\ bfs.pc \in {"idle", "done"}
    /\ last' = Call("BFS", nodes[a + 1].label, <<nodes[b + 1].label>>, a,
                    "nil")
    /\ \E q \in NeighborOrders(a) :
           bfs' = [frame EXCEPT !.pc = "loop", !.queue = q,
                                !.neighborsCalled = TRUE]
    /\ UNCHANGED <<nodes, labels, growthFactor, ops, calls, nbr>>

\* BFS(a, b) up to the loop: bLoc is resolved from the label of b, its
\* error dropped; a is tested; the queue is seeded with Neighbors(a).
BFS(a, b) ==
    LET bLoc == GetLocatorsByLabel(nodes[b + 1].label).loc
        h == HasEdges(nodes[a + 1], FALSE, <<bLoc>>)
        panics == h.panic \/ (~h.val /\ NeighborsPanics(a))
        frame == [NoSearch EXCEPT !.a = a, !.b = b, !.bLoc = bLoc]
    IN
    /\ Running
    /\ bfs.pc \in {"idle", "done"}
    /\ last' = Call("BFS", nodes[a + 1].label, <<nodes[b + 1].label>>, a,
                    IF panics THEN "panic" ELSE "nil")
    /\ IF panics THEN bfs' = [frame EXCEPT !.pc = "call"]
       ELSE IF h.val
            THEN bfs' = [frame EXCEPT !.pc = "done", !.result = TRUE]
            ELSE \E q \in NeighborOrders(a) :
                     bfs' = [frame EXCEPT !.pc = "loop", !.queue = q,
                                          !.neighborsCalled = TRUE]
    /\ UNCHANGED <<nodes, labels, growthFactor, ops, calls, nbr>>

\* Faulty variant of BFSStep: the neighbors of the front node are not queued.
BFSStepNoExpand ==
    LET h == HasEdges(nodes[bfs.queue[1] + 1], FALSE, <<bfs.bLoc>>) IN
    /\ Running
    /\ bfs.pc = "loop"
    /\ bfs.queue # <<>>
    /\ IF h.val
         THEN bfs' = [bfs EXCEPT !.pc = "done", !.result = TRUE]
         ELSE bfs' = [bfs EXCEPT !.queue = Tail(@)]
    /\ UNCHANGED <<nodes, labels, growthFactor, last, ops, calls, nbr>>

\* Faulty variant of BFSStep: the front of the queue is never popped.
BFSStepNoPop ==
    LET front == bfs.queue[1]
        h == HasEdges(nodes[front + 1], FALSE, <<bfs.bLoc>>)
    IN
    /\ Running
    /\ bfs.pc = "loop"
    /\ bfs.queue # <<>>
    /\ Len(bfs.queue) <= MaxQueue
    /\ IF h.val
         THEN bfs' = [bfs EXCEPT !.pc = "done", !.result = TRUE]
         ELSE \E q \in NeighborOrders(front) :
                  bfs' = [bfs EXCEPT !.queue = @ \o q]
    /\ UNCHANGED <<nodes, labels, growthFactor, last, ops, calls, nbr>>

\* One turn of the loop: the front node is tested; if it has no edge to
\* bLoc its neighbors are appended and the front is popped.  The search is
\* followed while the queue holds at most MaxQueue nodes.
BFSStep ==
    LET front == bfs.queue[1]
        h == HasEdges(nodes[front + 1], FALSE, <<bfs.bLoc>>)
        panics == h.panic \/ (~h.val /\ NeighborsPanics(front))
    IN
    /\ Running
    /\ bfs.pc = "loop"
    /\ bfs.queue # <<>>
    /\ Len(bfs.queue) <= MaxQueue
    /\ IF panics
         THEN /\ last' = [last EXCEPT !.err = "panic"]
              /\ UNCHANGED bfs
         ELSE /\ UNCHANGED last
              /\ IF h.val
                   THEN bfs' = [bfs EXCEPT !.pc = "done", !.result = TRUE]
                   ELSE \E q \in NeighborOrders(front) :
                            bfs' = [bfs EXCEPT !.queue = Tail(@ \o q)]
    /\ UNCHANGED <<nodes, labels, growthFactor, ops, calls, nbr>>

\* Faulty variant of BFSReturn: an empty queue returns true.
BFSReturnTrue ==
    /\ Running
    /\ bfs.pc = "loop"
    /\ bfs.queue = <<>>
    /\ bfs' = [bfs EXCEPT !.pc = "done", !.result = TRUE]
    /\ UNCHANGED <<nodes, labels, growthFactor, last, ops, calls, nbr>>

\* The queue is empty: return false.
BFSReturn ==
    /\ Running
    /\ bfs.pc = "loop"
    /\ bfs.queue = <<>>
    /\ bfs' = [bfs EXCEPT !.pc = "done", !.result = FALSE]
    /\ UNCHANGED <<nodes, labels, growthFactor, last, ops, calls, nbr>>

----------------------------------------------------------------------------
(* SpecDriver: the demonstration driver.  It adds the nodes "Node 0" ..    *)
(* "Node 9", connects them into a tree, and searches; the model searches   *)
(* between every pair of nodes of the tree, the driver's pair among them.  *)

DriverNodes == 10

\* graph.Connect("Node 0", "Node 1", "Node 2") and the four calls after it.
DriverEdges ==
    << <<0, <<1, 2>>>>, <<1, <<3, 4>>>>, <<2, <<5, 6>>>>, <<3, <<7, 8>>>>,
       <<4, <<9>>>> >>

DriverAddNode ==
    /\ Len(nodes) < DriverNodes
    /\ AddNode(NewBox(NodeName(Len(nodes))))
    /\ UNCHANGED <<ops, calls, nbr, bfs>>

DriverConnect ==
    /\ Len(nodes) = DriverNodes
    /\ ops < Len(DriverEdges)
    /\ LET e == DriverEdges[ops + 1] IN
       Connect(NodeName(e[1]), [k \in 1..Len(e[2]) |-> NodeName(e[2][k])])
    /\ ops' = ops + 1
    /\ UNCHANGED <<calls, nbr, bfs>>

DriverSearch ==
    /\ ops = Len(DriverEdges)
    /\ \E a, b \in 0..(Len(nodes) - 1) : BFS(a, b)

NextDriver ==
    \/ DriverAddNode
    \/ DriverConnect
    \/ DriverSearch
    \/ BFSStep
    \/ BFSReturn

SpecDriver == Init /\ [][NextDriver]_vars

----------------------------------------------------------------------------
(* SpecBFS: a small graph is built, with labels that may repeat, and BFS   *)
(* is called between its nodes while no mutation is in flight.  The loop   *)
(* of a search that has started keeps running (weak fairness of its        *)
(* steps): BFS is sequential code that nothing else can hold up.           *)

\* Labels not yet used are alike: a new node takes a label already in the
\* graph or the first unused label of this list.
SearchLabels == <<"a", "b", "c">>

NewLabels ==
    DOMAIN labels \cup
    {SearchLabels[k] : k \in {j \in 1..Len(SearchLabels) :
                                 j = Cardinality(DOMAIN labels) + 1}}

SearchTargetLists == UNION {[1..k -> DOMAIN labels] : k \in 1..MaxTargets}

Searching == bfs.pc \in {"call", "loop"}

BfsAddNode ==
    /\ ~Searching
    /\ Len(nodes) < MaxBfsNodes
    /\ \E l \in NewLabels : AddNode(NewBox(l))
    /\ bfs' = NoSearch
    /\ UNCHANGED <<ops, calls, nbr>>

BfsConnect ==
    /\ ~Searching
    /\ ops < MaxBfsOps
    /\ \E label \in DOMAIN labels, neighbors \in SearchTargetLists :
           Connect(label, neighbors)
    /\ ops' = ops + 1
    /\ bfs' = NoSearch
    /\ UNCHANGED <<calls, nbr>>

BfsDeleteByIndex ==
    /\ ~Searching
    /\ ops < MaxBfsOps
    /\ \E index \in 0..(Len(nodes) - 1) : DeleteByIndex(index)
    /\ ops' = ops + 1
    /\ bfs' = NoSearch
    /\ UNCHANGED <<calls, nbr>>

BfsCall == \E a, b \in 0..(Len(nodes) - 1) : BFS(a, b)

NextBFS ==
    \/ BfsAddNode
    \/ BfsConnect
    \/ BfsDeleteByIndex
    \/ BfsCall
    \/ BFSStep
    \/ BFSReturn

SpecBFS ==
    Init /\ [][NextBFS]_vars /\ WF_vars(BFSStep) /\ WF_vars(BFSReturn)

----------------------------------------------------------------------------
(* SpecBox: the edge methods of one Box, the node of a one-node graph,     *)
(* called with lists of Locators of the two indices on either side of the  *)
(* border between its first two adjacency words.                           *)

BoxIndices == (wordSize - 2)..(wordSize + 1)

BoxLocators == {GetLocatorsByIndex(i).loc : i \in BoxIndices}

LocatorLists == UNION {[1..k -> BoxLocators] : k \in 0..MaxLocators}

\* The record of a call of a Box method and its result.
BoxCall(op, strict, locators, val, panic) ==
    [op |-> op, strict |-> strict, locators |-> locators, val |-> val,
     err |-> IF panic THEN "panic" ELSE "nil"]

BoxNew ==
    /\ Len(nodes) = 0
    /\ AddNode(NewBox("a"))
    /\ UNCHANGED <<ops, calls, nbr, bfs>>

BoxAddEdges ==
    /\ Running
    /\ Len(nodes) = 1
    /\ \E locators \in LocatorLists :
           LET r == AddEdges(nodes[1], locators) IN
           /\ nodes' = <<r.box>>
           /\ last' = BoxCall("AddEdges", FALSE, locators, FALSE, r.panic)
    /\ UNCHANGED <<labels, growthFactor, ops, calls, nbr, bfs>>

BoxRemoveEdges ==
    /\ Running
    /\ Len(nodes) = 1
    /\ \E locators \in LocatorLists :
           LET r == RemoveEdges(nodes[1], locators) IN
           /\ nodes' = <<r.box>>
           /\ last' = BoxCall("RemoveEdges", FALSE, locators, FALSE, r.panic)
    /\ UNCHANGED <<labels, growthFactor, ops, calls, nbr, bfs>>

BoxHasEdges ==
    /\ Running
    /\ Len(nodes) = 1
    /\ \E strict \in BOOLEAN, locators \in LocatorLists :
           LET r == HasEdges(nodes[1], strict, locators) IN
           last' = BoxCall("HasEdges", strict, locators, r.val, r.panic)
    /\ UNCHANGED <<nodes, labels, growthFactor, ops, calls, nbr, bfs>>

NextBox ==
    \/ BoxNew
    \/ BoxAddEdges
    \/ BoxRemoveEdges
    \/ BoxHasEdges

SpecBox == Init /\ [][NextBox]_vars

----------------------------------------------------------------------------
(* SpecRead: a small graph is built, and between its mutations each of     *)
(* the reading calls is made: Size, GetByIndex, GetByLabel,                *)
(* GetLocatorsByIndex, GetLocatorsByLabel, Neighbors with its goroutines,  *)
(* and BFS with its loop.  One call is made at a time.                     *)

Idle == nbr.pc = "idle" /\ bfs.pc = "idle"

Returning == Quiet /\ ~Searching

ReadAddNode ==
    /\ Returning
    /\ Len(nodes) < MaxNbrNodes
    /\ \E l \in Labels : AddNode(NewBox(l))
    /\ nbr' = NoCall
    /\ bfs' = NoSearch
    /\ UNCHANGED <<ops, calls>>

ReadConnect ==
    /\ Returning
    /\ ops < MaxNbrOps
    /\ \E label \in Labels, neighbors \in TargetLists :
           Connect(label, neighbors)
    /\ ops' = ops + 1
    /\ nbr' = NoCall
    /\ bfs' = NoSearch
    /\ UNCHANGED calls

ReadDeleteByIndex ==
    /\ Returning
    /\ ops < MaxNbrOps
    /\ \E index \in 0..(Len(nodes) - 1) : DeleteByIndex(index)
    /\ ops' = ops + 1
    /\ nbr' = NoCall
    /\ bfs' = NoSearch
    /\ UNCHANGED calls

\* A call that only computes its result from the graph.
Query(op, label, index, err) ==
    /\ Running
    /\ Idle
    /\ last' = Call(op, label, <<>>, index, err)
    /\ UNCHANGED <<nodes, labels, growthFactor, ops, calls, nbr, bfs>>

ReadSize == Query("Size", "", Size, "nil")

ReadGetByIndex ==
    \E index \in -1..Len(nodes) :
        Query("GetByIndex", "", index, GetByIndex(index).err)

\* Faulty variant of ReadGetByLabel: a label not found is entered in the
\* label index as deleted.
ReadGetByLabelCaching ==
    \E label \in AllLabels :
        LET r == GetByLabel(label) IN
        /\ Running
        /\ Idle
        /\ last' = Call("GetByLabel", label, <<>>, r.node, r.err)
        /\ labels' = IF r.err = "errLabelNotFound"
                     THEN SetLabelIndex(labels, label, -1) ELSE labels
        /\ UNCHANGED <<nodes, growthFactor, ops, calls, nbr, bfs>>

ReadGetByLabel ==
    \E label \in AllLabels :
        LET r == GetByLabel(label) IN
        Query("GetByLabel", label, r.node, r.err)

ReadGetLocatorsByIndex ==
    \E n \in -1..Len(nodes) :
        Query("GetLocatorsByIndex", "", n, GetLocatorsByIndex(n).err)

ReadGetLocatorsByLabel ==
    \E label \in AllLabels :
        Query("GetLocatorsByLabel", label,
              IF label \in DOMAIN labels THEN labels[label] ELSE -1,
              GetLocatorsByLabel(label).err)

ReadNeighbors == Idle /\ NbrCall

ReadBFS == Idle /\ BfsCall

NextRead ==
    \/ ReadAddNode
    \/ ReadConnect
    \/ ReadDeleteByIndex
    \/ ReadSize
    \/ ReadGetByIndex
    \/ ReadGetByLabel
    \/ ReadGetLocatorsByIndex
    \/ ReadGetLocatorsByLabel
    \/ ReadNeighbors
    \/ Spawn
    \/ LookupMiss
    \/ NbrLookupHit
    \/ NeighborsReturn
    \/ ReadBFS
    \/ BFSStep
    \/ BFSReturn

SpecRead == Init /\ [][NextRead]_vars

----------------------------------------------------------------------------
(* Properties. *)

\* The indices whose bit is set in the adjacency words of box s.
EdgeSet(s) ==
    {k \in 0..(Len(s.adis) * wordSize - 1) :
        (s.adis[(k \div wordSize) + 1] \div (2 ^ (k % wordSize))) % 2 = 1}

Indices == 0..(Len(nodes) - 1)

\* AddNode grew the graph in this step: every node of the table before the
\* step and the appended node hold one more word, and the growth factor is
\* one higher.
Grew ==
    /\ growthFactor' = growthFactor + 1
    /\ \A i \in 1..Len(nodes) :
           Len(nodes'[i].adis) = Len(nodes[i].adis) + 1
    /\ Len(nodes'[Len(nodes')].adis) = Len(NewBox("").adis) + 1

\* AddNode did not grow the graph in this step.
NotGrew ==
    /\ growthFactor' = growthFactor
    /\ \A i \in 1..Len(nodes) : nodes'[i] = nodes[i]
    /\ Len(nodes'[Len(nodes')].adis) = Len(NewBox("").adis)

\* C1 as stated: growth fires during exactly those AddNode calls after which
\* the table length is a positive multiple of the word size, so after k
\* AddNode calls the growth factor is floor(k / W).
C1_GrowthAfterFill ==
    [][last'.op = "AddNode" =>
          /\ IF Len(nodes') % wordSize = 0 THEN Grew ELSE NotGrew
          /\ growthFactor' = Len(nodes') \div wordSize]_vars

\* C1 amended: growth fires during exactly those AddNode calls before which
\* the table length is a positive multiple of the word size (for W = 8 the
\* 9th and the 17th insertion, never the first), so after k >= 1 AddNode
\* calls the growth factor is floor((k - 1) / W).
C1_GrowthBeforeAppend ==
    [][last'.op = "AddNode" =>
          /\ Len(nodes') = Len(nodes) + 1
          /\ IF Len(nodes) > 0 /\ Len(nodes) % wordSize = 0
                THEN Grew ELSE NotGrew
          /\ growthFactor' = (Len(nodes') - 1) \div wordSize]_vars

\* C1 witness: growth has fired a second time, during the 17th insertion.
C1_Witness ==
    /\ last.op = "AddNode"
    /\ Len(nodes) = 2 * wordSize + 1
    /\ growthFactor = 2

\* C2: all nodes of the node table have the same number of adjacency words.
C2_SameWordCount ==
    \A i, j \in 1..Len(nodes) : Len(nodes[i].adis) = Len(nodes[j].adis)

\* C3: for every node s of the table and every index t < Size(), the column
\* t div W of t's Locator is smaller than the number of adjacency words of
\* s, and no call panics on an adjacency word that does not exist.
C3_ColumnsExist ==
    /\ \A s \in 1..Len(nodes), t \in Indices :
           t \div wordSize < Len(nodes[s].adis)
    /\ last.err # "panic"

\* C4: for every index i >= 0, GetLocatorsByIndex(i) returns column i div W
\* and mask 1 << (i mod W) with no error; the (column, mask) pairs of two
\* distinct indices differ; for i = -1 it returns the deleted error.
C4_Locators ==
    /\ \A c \in calls :
           IF c.n = -1 THEN c.err = "errDeleted"
           ELSE /\ c.err = "nil"
                /\ c.loc.column * wordSize <= c.n
                /\ c.n < (c.loc.column + 1) * wordSize
                /\ c.loc.offset = 2 ^ (c.n - c.loc.column * wordSize)
    /\ \A c, d \in calls :
           (c.n >= 0 /\ d.n >= 0 /\ c.n # d.n) => c.loc # d.loc

\* C4 witness: two indices one word apart were located: same mask, other
\* column.
C4_Witness ==
    \E c, d \in calls :
        /\ c.n >= 0
        /\ d.n = c.n + wordSize
        /\ c.loc.offset = d.loc.offset
        /\ c.err = "nil" /\ d.err = "nil"

\* The label resolves to a node of the table.
Resolves(label) == label \in DOMAIN labels /\ labels[label] # -1

\* The indices of the labels of a set that resolve.
ResolvedIndices(neighbors) ==
    {labels[l] : l \in {x \in neighbors : Resolves(x)}}

\* C5: Connect with a resolvable source returns no error for any list of
\* target labels, and afterwards the source's edges are its previous edges
\* and the indices of the target labels that resolve.
C5_ConnectUnion ==
    [][(last'.op = "Connect" /\ Resolves(last'.label)) =>
          /\ last'.err = "nil"
          /\ EdgeSet(nodes'[labels[last'.label] + 1])
               = EdgeSet(nodes[labels[last'.label] + 1])
                   \cup ResolvedIndices(last'.neighbors)]_vars

\* C6: Connect whose source label does not resolve returns LabelNotFound
\* and changes nothing of the graph: no node, no label-index entry, not the
\* growth factor.
C6_ConnectAborts ==
    [][(last'.op = "Connect" /\ ~Resolves(last'.label)) =>
          /\ last'.err = "errLabelNotFound"
          /\ nodes' = nodes
          /\ labels' = labels
          /\ growthFactor' = growthFactor]_vars

\* C6 witness: Connect was called with a source label absent from the label
\* index, on targets that all resolve, and returned LabelNotFound.
C6_Witness ==
    /\ last.op = "Connect"
    /\ last.label \notin DOMAIN labels
    /\ last.err = "errLabelNotFound"
    /\ Cardinality(last.neighbors) = 2
    /\ \A l \in last.neighbors : Resolves(l)

\* After the step: node i is flagged deleted, no node has the bit of index
\* i set, and the table has the length it had.
Scrubbed(i) ==
    /\ Len(nodes') = Len(nodes)
    /\ nodes'[i + 1].deleted
    /\ \A k \in 1..Len(nodes') : i \notin EdgeSet(nodes'[k])

\* C7: after DeleteByIndex(i), or DeleteByLabel of the label of node i, on a
\* live node i, no node has the bit of index i set, node i is flagged
\* deleted and Size() is as before.
C7_DeleteScrubs ==
    [][/\ (last'.op = "DeleteByIndex" /\ ~nodes[last'.index + 1].deleted)
            => Scrubbed(last'.index)
       /\ last'.op = "DeleteByLabel" =>
              \A i \in Indices :
                  (~nodes[i + 1].deleted /\ nodes[i + 1].label = last'.label)
                      => Scrubbed(i)]_vars

DeleteReturned ==
    /\ last'.op \in {"DeleteByIndex", "DeleteByLabel"}
    /\ last'.err = "nil"

\* C8 as stated: once a node is deleted, and until its label is inserted
\* again, GetByLabel of its label fails with LabelNotFound.
C8_DeletedNotFound ==
    [][DeleteReturned =>
          \A l \in DOMAIN labels :
              l = nodes[last'.index + 1].label
                  => GetByLabel(l)'.err = "errLabelNotFound"]_vars

\* C8 amended: once a node is deleted, and until its label is inserted
\* again, GetByLabel of its label fails with the deleted error (errDeleted,
\* the NodeDeleted kind), not with LabelNotFound.
C8_DeletedIsDeleted ==
    [][/\ DeleteReturned =>
              \A l \in DOMAIN labels :
                  l = nodes[last'.index + 1].label
                      => GetByLabel(l)'.err = "errDeleted"
       /\ \A l \in DOMAIN labels :
              (/\ GetByLabel(l).err = "errDeleted"
               /\ ~(last'.op = "AddNode" /\ last'.label = l))
                  => GetByLabel(l)'.err = "errDeleted"]_vars

\* C8 witness: a node was deleted, another call was made since, and the
\* label of the deleted node has not been inserted again.
C8_Witness ==
    /\ last.op = "Connect"
    /\ \E i \in Indices :
           /\ nodes[i + 1].deleted
           /\ labels[nodes[i + 1].label] = -1
           /\ \A j \in Indices : j > i => nodes[j + 1].label # nodes[i + 1].label

\* C9: DeleteByLabel(L) returns LabelNotFound exactly when L has no entry in
\* the label index, and for every L that has an entry (the sentinel left by
\* an earlier deletion included) it completes and reports success.
C9_DeleteByLabelTotal ==
    [][last'.op = "DeleteByLabel" =>
          IF last'.label \in DOMAIN labels
            THEN last'.err = "nil"
            ELSE last'.err = "errLabelNotFound"]_vars

\* C10: with no graph mutation in flight, whatever the interleaving of the
\* lookup goroutines, Neighbors(n) returns exactly the nodes at the indices
\* whose bit is set in the adjacency words of n, each of them once.
C10_NeighborsExact ==
    /\ last.op = "Neighbors" => last.err # "panic"
    /\ nbr.pc = "done" =>
           /\ \A k1, k2 \in 1..Len(nbr.results) :
                  k1 # k2 => nbr.results[k1] # nbr.results[k2]
           /\ {nbr.results[k] : k \in 1..Len(nbr.results)}
                  = EdgeSet(nodes[nbr.n + 1])

\* C10 witness: Neighbors returned two neighbors, the node of the higher
\* bit first.
C10_Witness ==
    /\ nbr.pc = "done"
    /\ Len(nbr.results) = 2
    /\ nbr.results[1] > nbr.results[2]

\* The search between nodes a and b has returned.
Returned(a, b) == bfs.pc = "done" /\ bfs.a = a /\ bfs.b = b

\* The search is still followed: it has not panicked and its queue is
\* within the length up to which the model follows the loop.
Followed == last.err # "panic" /\ Len(bfs.queue) <= MaxQueue

\* C11: on the driver's graph (nodes 0..9, edges 0->{1,2}, 1->{3,4},
\* 2->{5,6}, 3->{7,8}, 4->{9}), BFS(0, 9) returns true and BFS(9, 0)
\* returns false, in whatever order Neighbors delivers its results; neither
\* search panics or outgrows the queue the model follows.
C11_DriverSearch ==
    /\ Returned(0, 9) => bfs.result = TRUE
    /\ Returned(9, 0) => bfs.result = FALSE
    /\ bfs.pc # "idle" /\ <<bfs.a, bfs.b>> \in {<<0, 9>>, <<9, 0>>}
           => Followed

C11_Witness == Returned(0, 9) /\ bfs.result = TRUE /\ bfs.neighborsCalled

\* The index the label index holds for the label of node b: the node whose
\* Locator BFS(_, b) looks for, or -1.
TargetOf(b) == labels[nodes[b + 1].label]

\* C12: whenever the source of a search has the bit of the target's
\* Locator set, the search is over with the result true, it has never
\* called Neighbors and its queue was never built.
C12_ShortCircuit ==
    bfs.pc # "idle" /\ TargetOf(bfs.b) \in EdgeSet(nodes[bfs.a + 1])
        => /\ bfs.pc = "done"
           /\ bfs.result = TRUE
           /\ ~bfs.neighborsCalled
           /\ bfs.queue = <<>>

\* The source has the target's bit among several set bits.
C12_Witness ==
    /\ bfs.pc = "done"
    /\ TargetOf(bfs.b) \in EdgeSet(nodes[bfs.a + 1])
    /\ Cardinality(EdgeSet(nodes[bfs.a + 1])) > 1
    /\ ~bfs.neighborsCalled

\* The table index a Locator stands for.
LocIndex(loc) ==
    CHOOSE k \in 0..(wordSize * wordSize - 1) :
        loc.column = k \div wordSize /\ loc.offset = 2 ^ (k % wordSize)

\* The indices of a list of Locators.
LocIndices(locators) ==
    {LocIndex(locators[k]) : k \in 1..Len(locators)}

\* C13: HasEdges in strict mode returns true exactly if the bits of all
\* its Locators are set in the box, in non-strict mode exactly if the bit
\* of at least one is; on the empty list strict mode returns true and
\* non-strict mode false.
C13_HasEdges ==
    last.op = "HasEdges" =>
        /\ last.err = "nil"
        /\ last.strict =>
               (last.val <=> LocIndices(last.locators) \subseteq
                                 EdgeSet(nodes[1]))
        /\ ~last.strict =>
               (last.val <=> LocIndices(last.locators) \cap
                                 EdgeSet(nodes[1]) # {})
        /\ last.locators = <<>> => last.val = last.strict

\* A strict call that passes its first Locator and fails on its second.
C13_Witness ==
    /\ last.op = "HasEdges"
    /\ last.strict
    /\ Len(last.locators) = 2
    /\ LocIndex(last.locators[1]) \in EdgeSet(nodes[1])
    /\ LocIndex(last.locators[2]) \notin EdgeSet(nodes[1])
    /\ last.val = FALSE

\* C14: after AddEdges(locators) the box has the edge of each of them, a
\* second AddEdges(locators) would leave the adjacency words as they are,
\* and the set bits are those set before and those of the Locators; after
\* RemoveEdges(locators), whatever was added before, the box has the edge of
\* none of them, a second RemoveEdges(locators) would leave the words as
\* they are, and the set bits are those set before less those of the
\* Locators.  Neither call changes the number of words.
C14_AddRemove ==
    [][/\ last'.op = "AddEdges" =>
            /\ last'.err = "nil"
            /\ \A k \in 1..Len(last'.locators) :
                   HasEdges(nodes'[1], FALSE, <<last'.locators[k]>>).val
            /\ AddEdges(nodes'[1], last'.locators).box = nodes'[1]
            /\ EdgeSet(nodes'[1]) =
                   EdgeSet(nodes[1]) \cup LocIndices(last'.locators)
            /\ Len(nodes'[1].adis) = Len(nodes[1].adis)
       /\ last'.op = "RemoveEdges" =>
            /\ last'.err = "nil"
            /\ \A k \in 1..Len(last'.locators) :
                   ~HasEdges(nodes'[1], FALSE, <<last'.locators[k]>>).val
            /\ RemoveEdges(nodes'[1], last'.locators).box = nodes'[1]
            /\ EdgeSet(nodes'[1]) =
                   EdgeSet(nodes[1]) \ LocIndices(last'.locators)
            /\ Len(nodes'[1].adis) = Len(nodes[1].adis)
      ]_vars

\* An edge was removed from a box that keeps other edges, in both words.
C14_Witness ==
    /\ last.op = "RemoveEdges"
    /\ last.locators # <<>>
    /\ \E i, j \in EdgeSet(nodes[1]) : i < wordSize /\ j >= wordSize

\* Node i of the table is not deleted.
Live(i) == ~nodes[i + 1].deleted

\* C15: no two nodes of the table that are not deleted carry the same
\* label.
C15_UniqueLiveLabels ==
    \A i, j \in Indices :
        Live(i) /\ Live(j) /\ nodes[i + 1].label = nodes[j + 1].label
            => i = j

\* C16: no call shortens the node table or changes which node sits at an
\* index (a node keeps its label for life, so the node at index i has the
\* label it had, and GetByIndex(i) keeps succeeding); AddNode lengthens
\* the table by exactly one and puts the new node at the index that was
\* Size() before the call.
C16_AppendOnly ==
    [][/\ Len(nodes') >= Len(nodes)
       /\ \A i \in Indices :
              /\ nodes'[i + 1].label = nodes[i + 1].label
              /\ GetByIndex(i).err = "nil" => GetByIndex(i)'.err = "nil"
       /\ last'.op = "AddNode" =>
              /\ Len(nodes') = Len(nodes) + 1
              /\ last'.index = Len(nodes)
              /\ nodes'[Len(nodes) + 1].label = last'.label
              /\ nodes'[Len(nodes) + 1].deleted = FALSE
      ]_vars

\* A node was added after another node had been deleted.
C16_Witness ==
    /\ last.op = "AddNode"
    /\ last.index = Len(nodes) - 1
    /\ \E i \in Indices : i < last.index /\ ~Live(i)

\* The nodes one edge away from node i, by the adjacency bits.
Succ(i) == EdgeSet(nodes[i + 1]) \cap Indices

RECURSIVE Closure(_)
Closure(S) ==
    LET T == S \cup UNION {Succ(i) : i \in S} IN
    IF T = S THEN S ELSE Closure(T)

\* The nodes at the end of a directed path of at least one edge from a.
ReachFrom(a) == Closure(Succ(a))

\* No other node of the table carries the label of node i.
UniquelyLabelled(i) ==
    \A j \in Indices : nodes[j + 1].label = nodes[i + 1].label => j = i

CycleReachable(a) == \E c \in ReachFrom(a) : c \in ReachFrom(c)

\* A cycle is reachable from a, and neither a nor a node reachable from a
\* has an edge to b.
Diverges(a, b) == CycleReachable(a) /\ b \notin ReachFrom(a)

\* A cycle is reachable from a, and neither a nor a node reachable from a
\* has the bit of the Locator the label index gives for the label of b.
DivergesByLocator(a, b) ==
    CycleReachable(a) /\ TargetOf(b) \notin ReachFrom(a)

Tasks == Len(nbr.adis) * wordSize

\* C19: a Neighbors call in flight has not panicked and is never stuck:
\* the loop, a lookup goroutine or the return can take a step.  The loop
\* starts exactly Tasks goroutines; the hits sent and still to be sent
\* never exceed the capacity of the channel, which is Size(), so no send
\* blocks; wg counts the goroutines still running; the results are read
\* only once none is running, and none is running when the call is done.
C19_NeighborsCompletes ==
    /\ last.op = "Neighbors" => last.err # "panic"
    /\ nbr.pc \in {"spawn", "wait"} =>
           ENABLED (Spawn \/ LookupMiss \/ NbrLookupHit \/ NeighborsReturn)
    /\ nbr.pc = "spawn" => nbr.spawned = nbr.i * wordSize + nbr.j
    /\ nbr.pc \in {"wait", "done"} => nbr.spawned = Tasks
    /\ nbr.pc # "idle" => nbr.cap = Size
    /\ Len(nbr.ch) + Cardinality(nbr.hits) <= nbr.cap
    /\ nbr.wg = Cardinality(nbr.hits) + nbr.misses
    /\ nbr.pc # "done" => nbr.results = <<>>
    /\ nbr.pc = "done" => nbr.wg = 0 /\ nbr.results = nbr.ch

\* A call has returned with the channel filled to its capacity.
C19_Witness ==
    /\ nbr.pc = "done"
    /\ nbr.cap > 1
    /\ Len(nbr.results) = nbr.cap

ReadOps ==
    {"Neighbors", "BFS", "Size", "GetByIndex", "GetByLabel",
     "GetLocatorsByIndex", "GetLocatorsByLabel"}

\* C20: no step of Neighbors (the loop, the lookup goroutines, the
\* return), of BFS (the call, the turns of its loop, the return), of Size,
\* GetByIndex, GetByLabel, GetLocatorsByIndex or GetLocatorsByLabel changes
\* the node table, a node's adjacency words or deleted flag, the label
\* index or the growth factor.
C20_ReadsChangeNothing ==
    [][last'.op \in ReadOps =>
           /\ nodes' = nodes
           /\ labels' = labels
           /\ growthFactor' = growthFactor
      ]_vars

\* A search has gone through the queue and returned, on a graph with a
\* deleted node or a repeated label.
C20_Witness ==
    /\ last.op = "BFS"
    /\ bfs.pc = "done"
    /\ bfs.neighborsCalled
    /\ \E i \in Indices : ~Live(i) \/ ~UniquelyLabelled(i)

\* C21: a Connect call leaves the label index, the growth factor and the
\* length of the node table as they were, and every node other than the
\* source exactly as it was (its adjacency words, so no edge back from a
\* target, its label and its deleted flag); the source keeps its label,
\* its deleted flag and its number of words.
C21_ConnectFrame ==
    [][last'.op = "Connect" =>
           /\ labels' = labels
           /\ growthFactor' = growthFactor
           /\ Len(nodes') = Len(nodes)
           /\ \A i \in Indices :
                  IF i = last'.index
                    THEN /\ nodes'[i + 1].label = nodes[i + 1].label
                         /\ nodes'[i + 1].deleted = nodes[i + 1].deleted
                         /\ Len(nodes'[i + 1].adis) = Len(nodes[i + 1].adis)
                    ELSE nodes'[i + 1] = nodes[i + 1]
      ]_vars

\* Connect gave the source an edge to another node, which has no edge back.
C21_Witness ==
    /\ last.op = "Connect"
    /\ last.err = "nil"
    /\ \E t \in Indices :
           /\ t # last.index
           /\ t \in EdgeSet(nodes[last.index + 1])
           /\ last.index \notin EdgeSet(nodes[t + 1])

\* C22: every set bit (word c, bit b) of every node's adjacency words
\* denotes an index c * wordSize + b below Size(), so every index a
\* Neighbors call looks up is inside the node table and no lookup panics.
C22_BitsBelowSize ==
    \A i \in Indices :
        /\ \A k \in EdgeSet(nodes[i + 1]) : k >= 0 /\ k < Size
        /\ \A k \in NeighborHits(nodes[i + 1]) :
               k >= 0 /\ k < Size /\ GetByIndex(k).err # "panic"
        /\ ~NeighborsPanics(i)

\* The table is full and some node has the bit of the highest index set.
C22_Witness ==
    /\ Len(nodes) = MaxNodes
    /\ last.op = "Connect"
    /\ \E i \in Indices : (Size - 1) \in EdgeSet(nodes[i + 1])

\* No node has the bit of index i set, and no Neighbors call resolves i.
Unlinked(i) ==
    \A j \in Indices :
        /\ i \notin EdgeSet(nodes[j + 1])
        /\ i \notin NeighborHits(nodes[j + 1])

\* C23: once the node at index i is deleted it stays deleted, and in the
\* state after the deletion and after every later AddNode (the same label
\* included), Connect or delete call no node has the bit of index i set;
\* so no Neighbors call returns a node whose deleted flag is true.
C23_DeletedStaysUnlinked ==
    /\ [](\A i \in Indices : ~Live(i) => Unlinked(i))
    /\ [][\A i \in Indices : ~Live(i) => ~Live(i)']_vars

\* A node was deleted and a later Connect named its label, which the label
\* index maps to -1, as a target.
C23_Witness ==
    /\ last.op = "Connect"
    /\ last.err = "nil"
    /\ \E l \in last.neighbors : l \in DOMAIN labels /\ labels[l] = -1
    /\ \E i \in Indices : ~Live(i) /\ nodes[i + 1].label \in last.neighbors

\* No other node that is not deleted carries the label of node i.
OnlyLiveCarrier(i) ==
    \A j \in Indices :
        Live(j) /\ nodes[j + 1].label = nodes[i + 1].label => j = i

\* C24: every node that is not deleted and whose label no other node that
\* is not deleted carries is found by its label: GetByLabel of the label
\* succeeds and returns that node.
C24_LiveResolvable ==
    \A i \in Indices :
        Live(i) /\ OnlyLiveCarrier(i)
            => GetByLabel(nodes[i + 1].label) = [node |-> i, err |-> "nil"]

====
